---- MODULE Spec2Model ----
(***************************************************************************)
(* Marching Waves: the worker pool (src/worker-pool.js) on the main thread *)
(* and the workers (src/worker.js) it drives.                              *)
(*                                                                         *)
(* The main thread is one event loop.  A call of the async function        *)
(* execute runs synchronously up to its first await; what follows each     *)
(* await is a continuation in the FIFO queue of promise jobs (microtasks), *)
(* reached one job after the awaited promise settles; the promise of       *)
(* createWorker settles two jobs after the call.  A message from a worker  *)
(* is a task of the event loop: its handler runs only when the microtask   *)
(* queue is empty.  The caller's own code may run at any point between two *)
(* jobs, so execute, executeParallel, cancelTask, pauseTask, resumeTask,   *)
(* terminateAll, init, createWorker and getAvailableWorker may be called   *)
(* in any state.  Every worker is an event loop of its own with a FIFO     *)
(* inbox.                                                                  *)
(***************************************************************************)
EXTENDS Integers, Sequences, FiniteSets, TLC

VARIABLES
    pool,        \* the WorkerPool object's fields
    taskCount,   \* worker.taskCount of every Worker object created so far
    calls,       \* the invocations of execute and init, in the order made
    microtasks,  \* the main thread's queue of promise jobs: indices into
                 \* calls
    promise,     \* per task id: the promise execute made for the task
    worker,      \* per Worker object: its thread's state and its two channels
    job,         \* per task id: where executeTask stands inside its worker
    posted,      \* per task id: the events its worker has posted, in order
    handled,     \* per task id: the events the pool's onmessage has received
    signals,     \* per task id: the control messages the pool has sent for it
    ops,         \* how many init, cancelTask, pauseTask, resumeTask,
                 \* terminateAll, createWorker and getAvailableWorker calls
                 \* the caller made
    \* The pool with idle reclamation (the WorkerPool of src/README.md):
    rm,          \* its main thread: the pool's fields, every Worker object's
                 \* taskCount and lastActive, the calls and the microtasks
    timers,      \* the host's pending timeouts: [id, at]
    now,         \* Date.now()
    stopped,     \* the Worker objects terminate() was called on
    hist,        \* history: the caller's calls, the task completions, the
                 \* cleanup passes and what they terminated and spared
    \* One call of generateAdaptiveLevels (src/worker.js):
    gal,         \* its arguments min, max and interval, its local l, its
                 \* array levels, and where the call stands
    \* The console of the main thread:
    errors       \* the Worker objects whose onerror handler has logged
                 \* 'Worker error:', one entry for every line of the log

poolVars == <<pool, taskCount, calls, microtasks, promise, worker, job, posted,
              handled, signals, ops>>

\* The variables of the other specifications, which Spec leaves alone.
reclaimVars == <<rm, timers, now, stopped, hist>>
levelsVars == <<gal>>
errorVars == <<errors>>
others == <<reclaimVars, levelsVars, errorVars>>

vars == <<poolVars, others>>

\* ------------------------------------------------------------------ bounds

\* The caller makes at most MaxCalls calls of the pool's methods in all; every
\* task of an executeParallel counts as one.
MaxCalls == 3

\* navigator.hardwareConcurrency of the host, and the fallback when it is 0.
HardwareConcurrency == 2
DefaultConcurrency == 4

\* The values a caller passes to the constructor.
ConfiguredMaxWorkers == {-1, 0, 1, 2, 3}

\* The job kinds the switch of executeTask knows, and one it does not.
KnownMethods ==
    {"solveEikonalCPU", "extractContoursAdaptive", "extractStreamlines",
     "extractStipple", "extractTSP", "extractHatch"}
InputMethods == {"solveEikonalCPU", "extractTSP", "sharpen"}

\* A task as execute and executeParallel take it: its method, and whether it
\* comes with an onProgress callback.
InputTasks == [method : InputMethods, onProgress : BOOLEAN]

TaskIds == 1..MaxCalls

\* Every call of init or execute makes at most maxWorkers Worker objects and
\* one more, a call of createWorker or getAvailableWorker at most one.
WorkerIds == 1..(MaxCalls * (HardwareConcurrency + 1))
NoWorker == 0
NoTask == 0

Min(a, b) == IF a < b THEN a ELSE b

\* ------------------------------------------------------- the pool's state

\* navigator.hardwareConcurrency || 4
HostParallelism ==
    IF HardwareConcurrency = 0 THEN DefaultConcurrency ELSE HardwareConcurrency

\* constructor(maxWorkers)
Constructor(maxWorkers) ==
    [maxWorkers   |-> Min(maxWorkers, HostParallelism),
     workers      |-> <<>>,
     taskQueue    |-> <<>>,
     activeTasks  |-> [t \in {} |-> NoWorker],
     taskIdCounter |-> 0,
     initialized  |-> FALSE]

\* The main thread's state as one value, so that the synchronous part of
\* several execute calls (executeParallel) composes.
Main ==
    [pool |-> pool, taskCount |-> taskCount, calls |-> calls,
     microtasks |-> microtasks]

SetMain(m) ==
    /\ pool' = m.pool
    /\ taskCount' = m.taskCount
    /\ calls' = m.calls
    /\ microtasks' = m.microtasks

\* createWorker(): the Promise executor runs at once; it makes the Worker,
\* sets taskCount = 0 and pushes it.  Worker objects are numbered as made.
CreateWorker(m) ==
    LET w == Len(m.taskCount) + 1
    IN  [m EXCEPT !.pool.workers = Append(@, w), !.taskCount = Append(@, 0)]

\* The loop of getAvailableWorker: the first worker with the least taskCount,
\* NoWorker (null) when the pool holds none.
RECURSIVE LeastLoaded(_, _, _, _)
LeastLoaded(ws, tc, best, i) ==
    IF i > Len(ws) THEN best
    ELSE IF best = NoWorker \/ tc[ws[i]] < tc[best]
         THEN LeastLoaded(ws, tc, ws[i], i + 1)
         ELSE LeastLoaded(ws, tc, best, i + 1)

AvailableWorker(m) == LeastLoaded(m.pool.workers, m.taskCount, NoWorker, 1)

\* minTasks > 1, where minTasks is Infinity for an empty pool
MinTasksAboveOne(m) ==
    \/ AvailableWorker(m) = NoWorker
    \/ m.taskCount[AvailableWorker(m)] > 1

\* if (minTasks > 1 && this.workers.length < this.maxWorkers)
CreatesWorker(m) ==
    MinTasksAboveOne(m) /\ Len(m.pool.workers) < m.pool.maxWorkers

\* `await p`, p a promise of this realm: the continuation of call c is a
\* promise job, queued behind the jobs already waiting.
Enqueue(m, c) == [m EXCEPT !.microtasks = Append(@, c)]

\* createWorker is an async function that returns a native Promise.  The
\* promise an `await this.createWorker()` waits for is settled two promise
\* jobs after the call: one adopts the returned Promise (it calls its then),
\* one settles the async function's own promise.
AdoptionJobs == 2

\* `await this.createWorker()`: the first of the adoption jobs is queued at
\* the call; the continuation of call c is the job after the last of them.
AwaitCreateWorker(m, c) ==
    Enqueue([m EXCEPT !.calls[c].hops = AdoptionJobs], c)

\* One adoption job of call c, the head of the queue, runs: it queues the next
\* one, or the continuation, behind the jobs already waiting.
Adopt(m, c) ==
    [m EXCEPT !.calls[c].hops = @ - 1,
              !.microtasks = Append(Tail(@), c)]

\* execute from `const taskId = ...` to the await of getAvailableWorker():
\* getAvailableWorker runs to its own await (after createWorker) or to its
\* return.
AfterInit(m, c) ==
    LET m1 == [m EXCEPT !.pool.taskIdCounter = @ + 1,
                        !.calls[c].taskId = m.pool.taskIdCounter + 1]
    IN  IF CreatesWorker(m1)
        THEN AwaitCreateWorker([CreateWorker(m1) EXCEPT
                                   !.calls[c].pc = "gawCreated",
                                   !.calls[c].newWorker = TRUE], c)
        ELSE Enqueue([m1 EXCEPT
                         !.calls[c].pc = "gawRet",
                         !.calls[c].worker = AvailableWorker(m1)], c)

\* init() has set this.initialized and returns.  Inside execute the await of
\* its promise ends in a later microtask; a direct call is over.
InitReturns(m, c) ==
    IF m.calls[c].method = "init"
    THEN [m EXCEPT !.pool.initialized = TRUE, !.calls[c].pc = "returned"]
    ELSE Enqueue([m EXCEPT !.pool.initialized = TRUE,
                           !.calls[c].pc = "afterInit"], c)

\* init() up to its first await, when !this.initialized
InitStart(m, c) ==
    IF 0 < m.pool.maxWorkers
    THEN AwaitCreateWorker([CreateWorker(m) EXCEPT !.calls[c].pc = "init"], c)
    ELSE InitReturns(m, c)

\* init() after `await this.createWorker()`: i++, the loop test, and either
\* the next createWorker or `this.initialized = true`
InitStep(m, c) ==
    LET i == m.calls[c].i + 1
    IN  IF i < m.pool.maxWorkers
        THEN AwaitCreateWorker([CreateWorker(m) EXCEPT !.calls[c].i = i], c)
        ELSE InitReturns([m EXCEPT !.calls[c].i = i], c)

\* getAvailableWorker after `await this.createWorker()`:
\* return this.workers[this.workers.length - 1]
GawCreated(m, c) ==
    LET ws == m.pool.workers
    IN  Enqueue([m EXCEPT !.calls[c].pc = "gawRet",
                          !.calls[c].worker =
                              IF ws = <<>> THEN NoWorker ELSE ws[Len(ws)]], c)

\* A call of execute or init: where it stands, the adoption jobs its await of
\* createWorker still has to pass, and whether options.onProgress is a function.
NewCall(method, onProgress) ==
    [pc |-> "start", i |-> 0, taskId |-> NoTask, worker |-> NoWorker,
     method |-> method, newWorker |-> FALSE, hops |-> 0,
     onProgress |-> onProgress]

\* The synchronous part of one call of execute(method, params, options).
ExecuteStart(m, method, onProgress) ==
    LET c  == Len(m.calls) + 1
        m1 == [m EXCEPT !.calls = Append(@, NewCall(method, onProgress))]
    IN  IF ~m.pool.initialized THEN InitStart(m1, c) ELSE AfterInit(m1, c)

\* The synchronous part of a call of init() by the caller.
InitCall(m) ==
    LET c  == Len(m.calls) + 1
        m1 == [m EXCEPT !.calls = Append(@, NewCall("init", FALSE))]
    IN  IF m.pool.initialized
        THEN [m1 EXCEPT !.calls[c].pc = "returned"]
        ELSE InitStart(m1, c)

Executes(cs) == Len(SelectSeq(cs, LAMBDA call : call.method # "init"))

\* The calls the caller has made so far.
Made == Executes(calls) + ops

\* executeParallel: tasks.map(task => this.execute(..., {...options,
\* onProgress: task.onProgress})), one call after the other with no
\* continuation in between
RECURSIVE ExecuteAll(_, _)
ExecuteAll(m, tasks) ==
    IF tasks = <<>> THEN m
    ELSE ExecuteAll(ExecuteStart(m, Head(tasks).method,
                                 Head(tasks).onProgress), Tail(tasks))

\* -------------------------------------------------------------- workers

NewWorker ==
    [inbox |-> <<>>, outbox |-> <<>>, isCancelled |-> FALSE,
     isPaused |-> FALSE, pauseResolve |-> NoTask, terminated |-> FALSE]

\* The thread of every Worker object the main thread has made.
RECURSIVE Grow(_, _)
Grow(ws, n) == IF Len(ws) >= n THEN ws ELSE Grow(Append(ws, NewWorker), n)

\* worker.postMessage(msg): a terminated worker receives nothing
PostToWorker(ws, w, msg) ==
    IF ws[w].terminated THEN ws ELSE [ws EXCEPT ![w].inbox = Append(@, msg)]

\* What a handler does when executeTask calls it.  Every handler but
\* handleExtractTSP starts with `const t0 = performance.now()` and declares
\* `const performance = {...}` further down in the same function body, so the
\* name is in its temporal dead zone and the first statement throws a
\* ReferenceError.  handleExtractTSP first awaits a promise that only the
\* fulfilment of handleExtractStipple's promise resolves; that promise is
\* rejected, so the await never ends.
HandlerEntry(method) ==
    IF method \notin KnownMethods THEN "unknown"
    ELSE IF method = "extractTSP" THEN "awaitsForever"
    ELSE "throws"

\* The events executeTask posts for a task of this kind, and where it stops.
ExecuteTaskPosts(method, taskId) ==
    CASE HandlerEntry(method) = "unknown" ->
            <<[type |-> "error", taskId |-> taskId,
               message |-> "Unknown method: " \o method]>>
      [] HandlerEntry(method) = "throws" ->
            <<[type |-> "error", taskId |-> taskId,
               message |-> "Cannot access 'performance' before initialization"]>>
      [] OTHER -> <<>>

ExecuteTaskEnds(method) == HandlerEntry(method) # "awaitsForever"

RECURSIVE Types(_)
Types(msgs) == IF msgs = <<>> THEN <<>> ELSE <<Head(msgs).type>> \o Types(Tail(msgs))

\* ------------------------- the pool with idle reclamation (src/README.md)

\* The WorkerPool class printed in src/README.md is the pool above with three
\* more fields, a lastActive stamp on every Worker object, a single-shot
\* cleanup timer armed at every task completion, and a memory-pressure hook.
\* Its state is kept apart from the pool above; what its workers send is an
\* input of its onmessage handler.

IdleWorkerCleanupInterval == 60000
MinIdleWorkers == 1
NoTimer == 0

\* The clock advances in steps of half the idle interval, MaxTicks times, and
\* the caller makes at most MaxReclaimCalls calls of execute, init,
\* createWorker, getAvailableWorker, cancelTask, terminateAll, scheduleCleanup,
\* cleanupIdleWorkers and terminateIdleWorkers; broadcastVisibility and
\* checkMemoryPressure may be called at any time.
MaxTicks == 3
MaxReclaimCalls == 2
TickMs == IdleWorkerCleanupInterval \div 2

\* performance.memory as the host reports it: usedJSHeapSize of a
\* jsHeapSizeLimit of HeapLimit, or NoMemoryInfo where the host has none.
HeapLimit == 100
NoMemoryInfo == -1
HeapSamples == {NoMemoryInfo, 79, 80, 81}

\* constructor(maxWorkers)
ReadmeConstructor(maxWorkers) ==
    [maxWorkers   |-> Min(maxWorkers, HostParallelism),
     workers      |-> <<>>,
     taskQueue    |-> <<>>,
     activeTasks  |-> [t \in {} |-> NoWorker],
     taskIdCounter |-> 0,
     initialized  |-> FALSE,
     idleWorkerCleanupInterval |-> IdleWorkerCleanupInterval,
     minIdleWorkers |-> MinIdleWorkers,
     cleanupTimer |-> NoTimer]

\* createWorker sets worker.lastActive = Date.now(): every Worker object made
\* in the step that leads to m gets the stamp t.
RECURSIVE Stamp(_, _)
Stamp(m, t) ==
    IF Len(m.lastActive) >= Len(m.taskCount) THEN m
    ELSE Stamp([m EXCEPT !.lastActive = Append(@, t)], t)

\* Array.prototype.slice(0, end)
Slice0(seq, end) ==
    LET e == IF end < 0 THEN (IF Len(seq) + end < 0 THEN 0 ELSE Len(seq) + end)
             ELSE Min(end, Len(seq))
    IN  SubSeq(seq, 1, e)

\* Array.prototype.slice(begin) for 0 <= begin
SliceFrom(seq, begin) == SubSeq(seq, Min(begin, Len(seq)) + 1, Len(seq))

Range(seq) == {seq[i] : i \in DOMAIN seq}

\* this.workers.filter(w => w.taskCount > 0)
BusyWorkers(m) == SelectSeq(m.pool.workers, LAMBDA w : m.taskCount[w] > 0)

\* clearTimeout(this.cleanupTimer), for every value of the handle
ClearTimeout(ts, id) == {tm \in ts : tm.id # id}

\* scheduleCleanup as it would be without the clearTimeout.
ScheduleCleanupNoClear(m, ts, t, id) ==
    [rm     |-> [m EXCEPT !.pool.cleanupTimer = id],
     timers |-> ts \cup {[id |-> id, at |-> t + m.pool.idleWorkerCleanupInterval]}]

\* scheduleCleanup(), called at time t; id is the handle setTimeout returns
ScheduleCleanup(m, ts, t, id) ==
    LET cleared == IF m.pool.cleanupTimer # NoTimer
                   THEN ClearTimeout(ts, m.pool.cleanupTimer) ELSE ts
    IN  [rm     |-> [m EXCEPT !.pool.cleanupTimer = id],
         timers |-> cleared \cup
                    {[id |-> id, at |-> t + m.pool.idleWorkerCleanupInterval]}]

\* cleanupIdleWorkers as it would be if it took every worker without a task
\* for idle, however recently it was active.
CleanupIdleWorkersAnyAge(m, t) ==
    LET ws         == m.pool.workers
        minWorkers == m.pool.minIdleWorkers + Len(BusyWorkers(m))
        idle       == SelectSeq(ws, LAMBDA w : m.taskCount[w] = 0)
        gone       == Range(Slice0(idle, Len(ws) - minWorkers))
    IN  IF Len(ws) <= minWorkers THEN [rm |-> m, stop |-> {}]
        ELSE [rm   |-> [m EXCEPT !.pool.workers =
                                     SelectSeq(ws, LAMBDA w : w \notin gone)],
              stop |-> gone]

\* cleanupIdleWorkers() at time t: the pool afterwards and the workers it
\* called terminate() on
CleanupIdleWorkers(m, t) ==
    LET ws         == m.pool.workers
        minWorkers == m.pool.minIdleWorkers + Len(BusyWorkers(m))
        idle       == SelectSeq(ws, LAMBDA w :
                         /\ m.taskCount[w] = 0
                         /\ t - m.lastActive[w] > m.pool.idleWorkerCleanupInterval)
        gone       == Range(Slice0(idle, Len(ws) - minWorkers))
    IN  IF Len(ws) <= minWorkers THEN [rm |-> m, stop |-> {}]
        ELSE [rm   |-> [m EXCEPT !.pool.workers =
                                     SelectSeq(ws, LAMBDA w : w \notin gone)],
              stop |-> gone]

\* terminateIdleWorkers as it would be if it rebuilt this.workers from the
\* idle workers it keeps alone.
TerminateIdleWorkersDropsBusy(m) ==
    LET idle == SelectSeq(m.pool.workers, LAMBDA w : m.taskCount[w] = 0)
        gone == Slice0(idle, Len(idle) - m.pool.minIdleWorkers)
    IN  IF Len(gone) > 0
        THEN [rm   |-> [m EXCEPT !.pool.workers = SliceFrom(idle, Len(gone))],
              stop |-> Range(gone)]
        ELSE [rm |-> m, stop |-> {}]

\* terminateIdleWorkers()
TerminateIdleWorkers(m) ==
    LET idle == SelectSeq(m.pool.workers, LAMBDA w : m.taskCount[w] = 0)
        gone == Slice0(idle, Len(idle) - m.pool.minIdleWorkers)
    IN  IF Len(gone) > 0
        THEN [rm   |-> [m EXCEPT !.pool.workers =
                                     BusyWorkers(m) \o SliceFrom(idle, Len(gone))],
              stop |-> Range(gone)]
        ELSE [rm |-> m, stop |-> {}]

\* usageRatio > 0.8, with usageRatio = usedJSHeapSize / jsHeapSizeLimit
UsageAboveLimit(used) == used * 10 > HeapLimit * 8

\* ------------------------------ generateAdaptiveLevels (src/worker.js)

\* Field values and intervals are exact multiples of 1/PerOne, so that the
\* tolerance 0.001 is Tolerance units; the arguments drawn are such that the
\* code's doubles compare the same way.  Infinity stands above, and
\* NegInfinity below, every finite value.
PerOne == 4000
Tolerance == 4
Infinity == 1000000000
NegInfinity == 0 - Infinity

\* The levels array holds at most MaxLevels elements: one more push finds no
\* memory left.
MaxLevels == 8

IntervalSamples == {PerOne \div 2, PerOne, 2 * PerOne}
MinSamples == {0, PerOne}
RangeSamples(min) ==
    IF min = 0 THEN {0, 2, Tolerance, 2 * Tolerance, PerOne, 2 * PerOne, 3 * PerOne}
    ELSE {0, PerOne, 2 * PerOne, 3 * PerOne}

\* The min and max that handleExtractContoursAdaptive computes: of an empty
\* field, of a field of unreached cells only, of a field with some unreached
\* cells, and of a field of finite values.
MinMaxSamples ==
    {<<Infinity, NegInfinity>>, <<Infinity, Infinity>>}
    \cup {<<min, Infinity>> : min \in MinSamples}
    \cup UNION {{<<min, min + r>> : r \in RangeSamples(min)} : min \in MinSamples}

LevelsIdle ==
    [min |-> 0, max |-> 0, interval |-> PerOne, pc |-> "idle", l |-> 0,
     levels |-> <<>>]

LevelsAtRest == gal = LevelsIdle

\* No worker.onerror has fired.
ErrorsAtRest == errors = <<>>

\* The reclaiming pool before its constructor has run for any specification
\* that is not about it.
ReclaimAtRest ==
    /\ rm = [pool |-> ReadmeConstructor(1), taskCount |-> <<>>,
             lastActive |-> <<>>, calls |-> <<>>, microtasks |-> <<>>]
    /\ timers = {}
    /\ now = 0
    /\ stopped = {}
    /\ hist = [made |-> 0, completions |-> 0, sincePass |-> 0,
               firstCompletion |-> 0, lastCompletion |-> 0, passes |-> 0,
               scheduled |-> 0, lastArmed |-> 0,
               reclaimed |-> {}, forced |-> {}, spared |-> {}]

\* ----------------------------------------------------------------- Init

Init ==
    /\ \E mw \in ConfiguredMaxWorkers : pool = Constructor(mw)
    /\ taskCount = <<>>
    /\ calls = <<>>
    /\ microtasks = <<>>
    /\ promise = [t \in TaskIds |-> "none"]
    /\ worker = <<>>
    /\ job = [t \in TaskIds |->
                [worker |-> NoWorker, state |-> "none", method |-> "none"]]
    /\ posted = [t \in TaskIds |-> <<>>]
    /\ handled = [t \in TaskIds |-> <<>>]
    /\ signals = [t \in TaskIds |-> {}]
    /\ ops = 0
    /\ ReclaimAtRest
    /\ LevelsAtRest
    /\ ErrorsAtRest

\* ------------------------------------------------- the caller's operations

InitPool ==
    /\ UNCHANGED others
    /\ Made < MaxCalls
    /\ ops' = ops + 1
    /\ SetMain(InitCall(Main))
    /\ worker' = Grow(worker, Len(taskCount'))
    /\ UNCHANGED <<promise, job, posted, handled, signals>>

Execute(method, onProgress) ==
    /\ UNCHANGED others
    /\ Made < MaxCalls
    /\ SetMain(ExecuteStart(Main, method, onProgress))
    /\ worker' = Grow(worker, Len(taskCount'))
    /\ UNCHANGED <<promise, job, posted, handled, signals, ops>>

\* createWorker(), called by the caller: one more Worker object, whatever the
\* cap
CallCreateWorker ==
    /\ UNCHANGED others
    /\ Made < MaxCalls
    /\ ops' = ops + 1
    /\ SetMain(CreateWorker(Main))
    /\ worker' = Grow(worker, Len(taskCount'))
    /\ UNCHANGED <<promise, job, posted, handled, signals>>

\* getAvailableWorker(), called by the caller: it makes a worker when execute
\* would, and changes nothing else
CallGetAvailableWorker ==
    /\ UNCHANGED others
    /\ Made < MaxCalls
    /\ ops' = ops + 1
    /\ SetMain(IF CreatesWorker(Main) THEN CreateWorker(Main) ELSE Main)
    /\ worker' = Grow(worker, Len(taskCount'))
    /\ UNCHANGED <<promise, job, posted, handled, signals>>

ExecuteParallel(tasks) ==
    /\ UNCHANGED others
    /\ Made + Len(tasks) <= MaxCalls
    /\ SetMain(ExecuteAll(Main, tasks))
    /\ worker' = Grow(worker, Len(taskCount'))
    /\ UNCHANGED <<promise, job, posted, handled, signals, ops>>

Remove(f, k) == [x \in DOMAIN f \ {k} |-> f[x]]

\* cancelTask as it would be if it left the bookkeeping to the worker's report.
CancelTaskLazy(taskId) ==
    /\ UNCHANGED others
    /\ Made < MaxCalls
    /\ ops' = ops + 1
    /\ IF taskId \notin DOMAIN pool.activeTasks
       THEN UNCHANGED <<worker, signals>>
       ELSE /\ worker' = PostToWorker(worker, pool.activeTasks[taskId],
                             [type |-> "cancel", taskId |-> taskId])
            /\ signals' = [signals EXCEPT ![taskId] = @ \cup {"cancel"}]
    /\ UNCHANGED <<pool, taskCount, calls, microtasks, promise, job, posted,
                   handled>>

\* cancelTask(taskId)
CancelTask(taskId) ==
    /\ UNCHANGED others
    /\ Made < MaxCalls
    /\ ops' = ops + 1
    /\ IF taskId \notin DOMAIN pool.activeTasks
       THEN UNCHANGED <<pool, taskCount, worker, signals>>
       ELSE LET w == pool.activeTasks[taskId]
            IN  /\ worker' = PostToWorker(worker, w,
                                 [type |-> "cancel", taskId |-> taskId])
                /\ pool' = [pool EXCEPT !.activeTasks = Remove(@, taskId)]
                /\ taskCount' = [taskCount EXCEPT ![w] = @ - 1]
                /\ signals' = [signals EXCEPT ![taskId] = @ \cup {"cancel"}]
    /\ UNCHANGED <<calls, microtasks, promise, job, posted, handled>>

\* pauseTask(taskId)
PauseTask(taskId) ==
    /\ UNCHANGED others
    /\ Made < MaxCalls
    /\ ops' = ops + 1
    /\ IF taskId \notin DOMAIN pool.activeTasks
       THEN UNCHANGED <<worker, signals>>
       ELSE /\ worker' = PostToWorker(worker, pool.activeTasks[taskId],
                             [type |-> "pause", taskId |-> taskId])
            /\ signals' = [signals EXCEPT ![taskId] = @ \cup {"pause"}]
    /\ UNCHANGED <<pool, taskCount, calls, microtasks, promise, job, posted,
                   handled>>

\* resumeTask as it would be if it signalled the worker that ran the task
\* without looking the task up in activeTasks.
ResumeTaskUnchecked(taskId) ==
    /\ UNCHANGED others
    /\ Made < MaxCalls
    /\ ops' = ops + 1
    /\ IF job[taskId].worker = NoWorker
       THEN UNCHANGED <<worker, signals>>
       ELSE /\ worker' = PostToWorker(worker, job[taskId].worker,
                             [type |-> "resume", taskId |-> taskId])
            /\ signals' = [signals EXCEPT ![taskId] = @ \cup {"resume"}]
    /\ UNCHANGED <<pool, taskCount, calls, microtasks, promise, job, posted,
                   handled>>

\* resumeTask(taskId)
ResumeTask(taskId) ==
    /\ UNCHANGED others
    /\ Made < MaxCalls
    /\ ops' = ops + 1
    /\ IF taskId \notin DOMAIN pool.activeTasks
       THEN UNCHANGED <<worker, signals>>
       ELSE /\ worker' = PostToWorker(worker, pool.activeTasks[taskId],
                             [type |-> "resume", taskId |-> taskId])
            /\ signals' = [signals EXCEPT ![taskId] = @ \cup {"resume"}]
    /\ UNCHANGED <<pool, taskCount, calls, microtasks, promise, job, posted,
                   handled>>

\* getStats()
GetStats ==
    [totalWorkers  |-> Len(pool.workers),
     activeWorkers |-> Cardinality({i \in DOMAIN pool.workers :
                                      taskCount[pool.workers[i]] > 0}),
     queuedTasks   |-> Len(pool.taskQueue),
     activeTasks   |-> Cardinality(DOMAIN pool.activeTasks)]

\* terminateAll as it would be if it stopped the workers and forgot them but
\* kept the task table.
TerminateAllKeepsTasks ==
    /\ UNCHANGED others
    /\ Made < MaxCalls
    /\ ops' = ops + 1
    /\ worker' = [w \in DOMAIN worker |->
                    IF \E i \in DOMAIN pool.workers : pool.workers[i] = w
                    THEN [worker[w] EXCEPT !.terminated = TRUE,
                                           !.inbox = <<>>, !.outbox = <<>>]
                    ELSE worker[w]]
    /\ pool' = [pool EXCEPT !.workers = <<>>, !.initialized = FALSE]
    /\ UNCHANGED <<taskCount, calls, microtasks, promise, job, posted, handled,
                   signals>>

\* terminateAll(): worker.terminate() for every pooled worker; the browser
\* drops what either side of a terminated worker has not yet received.
TerminateAll ==
    /\ UNCHANGED others
    /\ Made < MaxCalls
    /\ ops' = ops + 1
    /\ worker' = [w \in DOMAIN worker |->
                    IF \E i \in DOMAIN pool.workers : pool.workers[i] = w
                    THEN [worker[w] EXCEPT !.terminated = TRUE,
                                           !.inbox = <<>>, !.outbox = <<>>]
                    ELSE worker[w]]
    /\ pool' = [pool EXCEPT !.workers = <<>>,
                            !.activeTasks = [t \in {} |-> NoWorker],
                            !.initialized = FALSE]
    /\ UNCHANGED <<taskCount, calls, microtasks, promise, job, posted, handled,
                   signals>>

\* ------------------------------------- continuations of execute (microtasks)

Next1 == Head(microtasks)
Popped == [Main EXCEPT !.microtasks = Tail(@)]

\* A promise job that adopts the Promise createWorker returned, or settles
\* createWorker's own promise.
PromiseJob ==
    /\ UNCHANGED others
    /\ microtasks # <<>>
    /\ calls[Next1].hops > 0
    /\ SetMain(Adopt(Main, Next1))
    /\ UNCHANGED <<promise, worker, job, posted, handled, signals, ops>>

\* init() after `await this.createWorker()`
InitContinue ==
    /\ UNCHANGED others
    /\ microtasks # <<>>
    /\ calls[Next1].hops = 0
    /\ calls[Next1].pc = "init"
    /\ SetMain(InitStep(Popped, Next1))
    /\ worker' = Grow(worker, Len(taskCount'))
    /\ UNCHANGED <<promise, job, posted, handled, signals, ops>>

\* execute after `await this.init()`
AfterInitContinue ==
    /\ UNCHANGED others
    /\ microtasks # <<>>
    /\ calls[Next1].hops = 0
    /\ calls[Next1].pc = "afterInit"
    /\ SetMain(AfterInit(Popped, Next1))
    /\ worker' = Grow(worker, Len(taskCount'))
    /\ UNCHANGED <<promise, job, posted, handled, signals, ops>>

\* getAvailableWorker after `await this.createWorker()`
GawCreatedContinue ==
    /\ UNCHANGED others
    /\ microtasks # <<>>
    /\ calls[Next1].hops = 0
    /\ calls[Next1].pc = "gawCreated"
    /\ SetMain(GawCreated(Popped, Next1))
    /\ UNCHANGED <<promise, worker, job, posted, handled, signals, ops>>

\* execute after `await this.getAvailableWorker()`: the throw for no worker,
\* or activeTasks.set, worker.taskCount++ and worker.postMessage.  The message
\* carries `options`; when options.onProgress is a function the structured
\* clone of the message fails and postMessage throws DataCloneError: nothing is
\* posted, the promise execute returned is rejected, and the task stays in
\* activeTasks with its own promise pending.
RecordTask ==
    /\ UNCHANGED others
    /\ microtasks # <<>>
    /\ calls[Next1].hops = 0
    /\ calls[Next1].pc = "gawRet"
    /\ LET c == Next1
           w == calls[c].worker
           t == calls[c].taskId
       IN  IF w = NoWorker
           THEN /\ calls' = [calls EXCEPT ![c].pc = "threw"]
                /\ UNCHANGED <<pool, taskCount, promise, worker>>
           ELSE /\ pool' = [pool EXCEPT !.activeTasks = (t :> w) @@ @]
                /\ taskCount' = [taskCount EXCEPT ![w] = @ + 1]
                /\ promise' = [promise EXCEPT ![t] = "pending"]
                /\ IF calls[c].onProgress
                   THEN /\ calls' = [calls EXCEPT ![c].pc = "cloneFailed"]
                        /\ UNCHANGED worker
                   ELSE /\ calls' = [calls EXCEPT ![c].pc = "returned"]
                        /\ worker' = PostToWorker(worker, w,
                                         [type |-> "execute", taskId |-> t,
                                          method |-> calls[c].method])
    /\ microtasks' = Tail(microtasks)
    /\ UNCHANGED <<job, posted, handled, signals, ops>>

\* ------------------------------------------- the pool's worker.onmessage

\* worker.onmessage as it would be if it released a slot for every terminal
\* event, whether or not the task is still in activeTasks.
OnMessageAlwaysReleases(w) ==
    /\ UNCHANGED others
    /\ w \in DOMAIN worker
    /\ microtasks = <<>>
    /\ worker[w].outbox # <<>>
    /\ LET msg == Head(worker[w].outbox)
           t == msg.taskId
       IN  /\ worker' = [worker EXCEPT ![w].outbox = Tail(@)]
           /\ handled' = [handled EXCEPT ![t] = Append(@, msg.type)]
           /\ IF msg.type = "progress"
              THEN UNCHANGED <<pool, taskCount, promise>>
              ELSE /\ taskCount' = [taskCount EXCEPT ![w] = @ - 1]
                   /\ promise' = [promise EXCEPT ![t] =
                          IF t \notin DOMAIN pool.activeTasks THEN @
                          ELSE IF msg.type = "result" THEN "resolved"
                          ELSE "rejected"]
                   /\ pool' = [pool EXCEPT !.activeTasks = Remove(@, t)]
    /\ UNCHANGED <<calls, microtasks, job, posted, signals, ops>>

OnMessage(w) ==
    /\ UNCHANGED others
    /\ w \in DOMAIN worker
    /\ microtasks = <<>>
    /\ worker[w].outbox # <<>>
    /\ LET msg == Head(worker[w].outbox)
           t == msg.taskId
       IN  /\ worker' = [worker EXCEPT ![w].outbox = Tail(@)]
           /\ handled' = [handled EXCEPT ![t] = Append(@, msg.type)]
           /\ IF t \notin DOMAIN pool.activeTasks \/ msg.type = "progress"
              THEN UNCHANGED <<pool, taskCount, promise>>
              ELSE /\ taskCount' = [taskCount EXCEPT ![pool.activeTasks[t]] = @ - 1]
                   /\ promise' = [promise EXCEPT ![t] =
                          IF msg.type = "result" THEN "resolved" ELSE "rejected"]
                   /\ pool' = [pool EXCEPT !.activeTasks = Remove(@, t)]
    /\ UNCHANGED <<calls, microtasks, job, posted, signals, ops>>


\* self.onmessage as it would be if executeTask did not reset isCancelled,
\* isPaused and pauseResolve.
WorkerOnMessageKeepsFlags(w) ==
    /\ UNCHANGED others
    /\ w \in DOMAIN worker
    /\ ~worker[w].terminated
    /\ worker[w].inbox # <<>>
    /\ LET msg == Head(worker[w].inbox)
           rest == [worker[w] EXCEPT !.inbox = Tail(@)]
       IN  CASE msg.type = "cancel" ->
                  /\ worker' = [worker EXCEPT ![w] = [rest EXCEPT !.isCancelled = TRUE]]
                  /\ UNCHANGED <<job, posted>>
             [] msg.type = "pause" ->
                  /\ worker' = [worker EXCEPT ![w] = [rest EXCEPT !.isPaused = TRUE]]
                  /\ UNCHANGED <<job, posted>>
             [] msg.type = "resume" ->
                  /\ worker' = [worker EXCEPT ![w] =
                         [rest EXCEPT !.isPaused = FALSE, !.pauseResolve = NoTask]]
                  /\ UNCHANGED <<job, posted>>
             [] OTHER ->
                  \* executeTask without lines 94-96
                  LET out == ExecuteTaskPosts(msg.method, msg.taskId)
                  IN  /\ worker' = [worker EXCEPT ![w] =
                             [rest EXCEPT !.outbox = @ \o out]]
                      /\ job' = [job EXCEPT ![msg.taskId] =
                             [worker |-> w,
                              state |-> IF ExecuteTaskEnds(msg.method)
                                        THEN "ended" ELSE "awaiting",
                              method |-> msg.method]]
                      /\ posted' = [posted EXCEPT ![msg.taskId] = @ \o Types(out)]
    /\ UNCHANGED <<pool, taskCount, calls, microtasks, promise, handled,
                   signals, ops>>

\* ---------------------------------------------- the worker's self.onmessage

WorkerOnMessage(w) ==
    /\ UNCHANGED others
    /\ w \in DOMAIN worker
    /\ ~worker[w].terminated
    /\ worker[w].inbox # <<>>
    /\ LET msg == Head(worker[w].inbox)
           rest == [worker[w] EXCEPT !.inbox = Tail(@)]
       IN  CASE msg.type = "cancel" ->
                  /\ worker' = [worker EXCEPT ![w] = [rest EXCEPT !.isCancelled = TRUE]]
                  /\ UNCHANGED <<job, posted>>
             [] msg.type = "pause" ->
                  /\ worker' = [worker EXCEPT ![w] = [rest EXCEPT !.isPaused = TRUE]]
                  /\ UNCHANGED <<job, posted>>
             [] msg.type = "resume" ->
                  /\ worker' = [worker EXCEPT ![w] =
                         [rest EXCEPT !.isPaused = FALSE, !.pauseResolve = NoTask]]
                  /\ UNCHANGED <<job, posted>>
             [] OTHER ->
                  \* executeTask: the reset of the three globals, then the
                  \* handler, then the microtask that catches what it threw
                  LET out == ExecuteTaskPosts(msg.method, msg.taskId)
                  IN  /\ worker' = [worker EXCEPT ![w] =
                             [rest EXCEPT !.isCancelled = FALSE,
                                          !.isPaused = FALSE,
                                          !.pauseResolve = NoTask,
                                          !.outbox = @ \o out]]
                      /\ job' = [job EXCEPT ![msg.taskId] =
                             [worker |-> w,
                              state |-> IF ExecuteTaskEnds(msg.method)
                                        THEN "ended" ELSE "awaiting",
                              method |-> msg.method]]
                      /\ posted' = [posted EXCEPT ![msg.taskId] = @ \o Types(out)]
    /\ UNCHANGED <<pool, taskCount, calls, microtasks, promise, handled,
                   signals, ops>>

\* ----------------------------------------------------------------- Next

Next ==
    \/ InitPool
    \/ \E task \in InputTasks : Execute(task.method, task.onProgress)
    \/ \E n \in 2..(MaxCalls - Made) : \E tasks \in [1..n -> InputTasks] :
          ExecuteParallel(tasks)
    \/ \E t \in TaskIds : CancelTask(t)
    \/ \E t \in TaskIds : PauseTask(t)
    \/ \E t \in TaskIds : ResumeTask(t)
    \/ TerminateAll
    \/ CallCreateWorker
    \/ CallGetAvailableWorker
    \/ PromiseJob
    \/ InitContinue
    \/ AfterInitContinue
    \/ GawCreatedContinue
    \/ RecordTask
    \/ \E w \in WorkerIds : OnMessage(w)
    \/ \E w \in WorkerIds : WorkerOnMessage(w)

Spec == Init /\ [][Next]_vars

\* ------------------------------- the pool with idle reclamation: its steps

ReclaimMethods == {"solveEikonalCPU"}

\* The tasks given to the reclaiming pool.  Its execute takes onProgress out of
\* the options before it posts them, so the callback changes no step of it.
ReclaimTasks == [method : ReclaimMethods, onProgress : {FALSE}]

ReclaimInit ==
    /\ pool = Constructor(1)
    /\ taskCount = <<>>
    /\ calls = <<>>
    /\ microtasks = <<>>
    /\ promise = [t \in TaskIds |-> "none"]
    /\ worker = <<>>
    /\ job = [t \in TaskIds |->
                [worker |-> NoWorker, state |-> "none", method |-> "none"]]
    /\ posted = [t \in TaskIds |-> <<>>]
    /\ handled = [t \in TaskIds |-> <<>>]
    /\ signals = [t \in TaskIds |-> {}]
    /\ ops = 0
    /\ \E mw \in {1, 2} :
          rm = [pool |-> ReadmeConstructor(mw), taskCount |-> <<>>,
                lastActive |-> <<>>, calls |-> <<>>, microtasks |-> <<>>]
    /\ timers = {}
    /\ now = 0
    /\ stopped = {}
    /\ hist = [made |-> 0, completions |-> 0, sincePass |-> 0,
               firstCompletion |-> 0, lastCompletion |-> 0, passes |-> 0,
               scheduled |-> 0, lastArmed |-> 0,
               reclaimed |-> {}, forced |-> {}, spared |-> {}]
    /\ LevelsAtRest
    /\ ErrorsAtRest

\* One more call of the pool's methods by the caller.
Calling ==
    /\ hist.made < MaxReclaimCalls
    /\ hist' = [hist EXCEPT !.made = @ + 1]

\* execute(method, ...) up to its first await
ReadmeExecute(method) ==
    /\ Calling
    /\ rm' = Stamp(ExecuteStart(rm, method, FALSE), now)
    /\ UNCHANGED <<poolVars, levelsVars, errorVars, timers, now, stopped>>

\* executeParallel(tasks)
ReadmeExecuteParallel(tasks) ==
    /\ hist.made + Len(tasks) <= MaxReclaimCalls
    /\ hist' = [hist EXCEPT !.made = @ + Len(tasks)]
    /\ rm' = Stamp(ExecuteAll(rm, tasks), now)
    /\ UNCHANGED <<poolVars, levelsVars, errorVars, timers, now, stopped>>

ReadmeNext1 == Head(rm.microtasks)
ReadmePopped == [rm EXCEPT !.microtasks = Tail(@)]

\* A promise job between createWorker and the continuation that awaits it
ReadmePromiseJob ==
    /\ rm.microtasks # <<>>
    /\ rm.calls[ReadmeNext1].hops > 0
    /\ rm' = Adopt(rm, ReadmeNext1)
    /\ UNCHANGED <<poolVars, levelsVars, errorVars, timers, now, stopped, hist>>

\* init() after `await this.createWorker()`
ReadmeInitContinue ==
    /\ rm.microtasks # <<>>
    /\ rm.calls[ReadmeNext1].hops = 0
    /\ rm.calls[ReadmeNext1].pc = "init"
    /\ rm' = Stamp(InitStep(ReadmePopped, ReadmeNext1), now)
    /\ UNCHANGED <<poolVars, levelsVars, errorVars, timers, now, stopped, hist>>

\* execute after `await this.init()`
ReadmeAfterInitContinue ==
    /\ rm.microtasks # <<>>
    /\ rm.calls[ReadmeNext1].hops = 0
    /\ rm.calls[ReadmeNext1].pc = "afterInit"
    /\ rm' = Stamp(AfterInit(ReadmePopped, ReadmeNext1), now)
    /\ UNCHANGED <<poolVars, levelsVars, errorVars, timers, now, stopped, hist>>

\* getAvailableWorker after `await this.createWorker()`
ReadmeGawCreatedContinue ==
    /\ rm.microtasks # <<>>
    /\ rm.calls[ReadmeNext1].hops = 0
    /\ rm.calls[ReadmeNext1].pc = "gawCreated"
    /\ rm' = GawCreated(ReadmePopped, ReadmeNext1)
    /\ UNCHANGED <<poolVars, levelsVars, errorVars, timers, now, stopped, hist>>

\* execute after `await this.getAvailableWorker()`
ReadmeRecordTask ==
    /\ rm.microtasks # <<>>
    /\ rm.calls[ReadmeNext1].hops = 0
    /\ rm.calls[ReadmeNext1].pc = "gawRet"
    /\ LET c == ReadmeNext1
           w == rm.calls[c].worker
           t == rm.calls[c].taskId
       IN  rm' = IF w = NoWorker
                 THEN [ReadmePopped EXCEPT !.calls[c].pc = "threw"]
                 ELSE [ReadmePopped EXCEPT
                          !.calls[c].pc = "returned",
                          !.pool.activeTasks = (t :> w) @@ @,
                          !.taskCount[w] = @ + 1]
    /\ UNCHANGED <<poolVars, levelsVars, errorVars, timers, now, stopped, hist>>

\* init(), called by the caller
ReadmeInit ==
    /\ Calling
    /\ rm' = Stamp(InitCall(rm), now)
    /\ UNCHANGED <<poolVars, levelsVars, errorVars, timers, now, stopped>>

\* createWorker(), called by the caller: one more Worker object, whatever the
\* cap
ReadmeCallCreateWorker ==
    /\ Calling
    /\ rm' = Stamp(CreateWorker(rm), now)
    /\ UNCHANGED <<poolVars, levelsVars, errorVars, timers, now, stopped>>

\* getAvailableWorker(), called by the caller: it makes a worker when execute
\* would, and changes nothing else
ReadmeCallGetAvailableWorker ==
    /\ Calling
    /\ rm' = IF CreatesWorker(rm) THEN Stamp(CreateWorker(rm), now) ELSE rm
    /\ UNCHANGED <<poolVars, levelsVars, errorVars, timers, now, stopped>>

\* The handle the next setTimeout returns.
NextTimerId == hist.completions + hist.scheduled + 1

\* The execute message of task t was posted to worker w.
SentTo(w, t) ==
    \E c \in DOMAIN rm.calls :
        /\ rm.calls[c].pc = "returned"
        /\ rm.calls[c].method # "init"
        /\ rm.calls[c].taskId = t
        /\ rm.calls[c].worker = w

\* worker.onmessage, for a message of the given type that worker w sends
\* about task t
ReadmeOnMessage(w, t, type) ==
    /\ rm.microtasks = <<>>
    /\ w \in DOMAIN rm.taskCount
    /\ w \notin stopped
    /\ SentTo(w, t)
    /\ IF t \notin DOMAIN rm.pool.activeTasks
       THEN UNCHANGED <<rm, timers, hist>>
       ELSE LET seen == [rm EXCEPT !.lastActive[w] = now]
            IN  IF type = "progress"
                THEN rm' = seen /\ UNCHANGED <<timers, hist>>
                ELSE LET done == [seen EXCEPT
                                     !.taskCount[rm.pool.activeTasks[t]] = @ - 1,
                                     !.pool.activeTasks = Remove(@, t)]
                         armed == ScheduleCleanup(done, timers, now,
                                                  NextTimerId)
                     IN  /\ rm' = armed.rm
                         /\ timers' = armed.timers
                         /\ hist' = [hist EXCEPT
                                        !.completions = @ + 1,
                                        !.sincePass = @ + 1,
                                        !.firstCompletion =
                                            IF hist.sincePass = 0 THEN now ELSE @,
                                        !.lastCompletion = now,
                                        !.lastArmed = now]
    /\ UNCHANGED <<poolVars, levelsVars, errorVars, now, stopped>>

\* cancelTask(taskId)
ReadmeCancelTask(taskId) ==
    /\ Calling
    /\ IF taskId \notin DOMAIN rm.pool.activeTasks
       THEN UNCHANGED rm
       ELSE rm' = [rm EXCEPT !.taskCount[rm.pool.activeTasks[taskId]] = @ - 1,
                             !.pool.activeTasks = Remove(@, taskId)]
    /\ UNCHANGED <<poolVars, levelsVars, errorVars, timers, now, stopped>>

\* terminateAll()
ReadmeTerminateAll ==
    /\ Calling
    /\ stopped' = stopped \cup Range(rm.pool.workers)
    /\ rm' = [rm EXCEPT !.pool.workers = <<>>,
                        !.pool.activeTasks = [t \in {} |-> NoWorker],
                        !.pool.initialized = FALSE]
    /\ UNCHANGED <<poolVars, levelsVars, errorVars, timers, now>>

\* scheduleCleanup(), called by the caller
CallScheduleCleanup ==
    /\ hist.made < MaxReclaimCalls
    /\ LET armed == ScheduleCleanup(rm, timers, now, NextTimerId)
       IN  /\ rm' = armed.rm
           /\ timers' = armed.timers
    /\ hist' = [hist EXCEPT !.made = @ + 1,
                            !.scheduled = @ + 1,
                            !.sincePass = @ + 1,
                            !.lastArmed = now]
    /\ UNCHANGED <<poolVars, levelsVars, errorVars, now, stopped>>

\* cleanupIdleWorkers(), called by the caller
CallCleanupIdleWorkers ==
    /\ hist.made < MaxReclaimCalls
    /\ LET after == CleanupIdleWorkers(rm, now)
       IN  /\ rm' = after.rm
           /\ stopped' = stopped \cup after.stop
           /\ hist' = [hist EXCEPT
                          !.made = @ + 1,
                          !.reclaimed = @ \cup after.stop,
                          !.spared = @ \cup (IF after.stop = {} THEN {}
                                             ELSE Range(BusyWorkers(rm)))]
    /\ UNCHANGED <<poolVars, levelsVars, errorVars, timers, now>>

\* terminateIdleWorkers(), called by the caller
CallTerminateIdleWorkers ==
    /\ hist.made < MaxReclaimCalls
    /\ LET after == TerminateIdleWorkers(rm)
       IN  /\ rm' = after.rm
           /\ stopped' = stopped \cup after.stop
           /\ hist' = [hist EXCEPT
                          !.made = @ + 1,
                          !.forced = @ \cup after.stop,
                          !.spared = @ \cup (IF after.stop = {} THEN {}
                                             ELSE Range(BusyWorkers(rm)))]
    /\ UNCHANGED <<poolVars, levelsVars, errorVars, timers, now>>

\* broadcastVisibility(isVisible), called by the caller or from a handler of a
\* host event, at any point between two promise jobs
BroadcastVisibility ==
    /\ rm' = [rm EXCEPT !.lastActive =
                 [w \in DOMAIN @ |->
                     IF w \in Range(rm.pool.workers) THEN now ELSE @[w]]]
    /\ UNCHANGED <<poolVars, levelsVars, errorVars, timers, now, stopped, hist>>

\* checkMemoryPressure(), called by the caller or from a handler of a host
\* event, at any point between two promise jobs, the host reporting `used` as
\* usedJSHeapSize
CheckMemoryPressure(used) ==
    /\ IF used # NoMemoryInfo /\ UsageAboveLimit(used)
       THEN LET after == TerminateIdleWorkers(rm)
            IN  /\ rm' = after.rm
                /\ stopped' = stopped \cup after.stop
                /\ hist' = [hist EXCEPT
                               !.forced = @ \cup after.stop,
                               !.spared = @ \cup (IF after.stop = {} THEN {}
                                                  ELSE Range(BusyWorkers(rm)))]
       ELSE UNCHANGED <<rm, stopped, hist>>
    /\ UNCHANGED <<poolVars, levelsVars, errorVars, timers, now>>

\* The callback of the cleanup timer: this.cleanupIdleWorkers()
CleanupTimerFires ==
    /\ rm.microtasks = <<>>
    /\ \E tm \in timers :
          /\ tm.at <= now
          /\ timers' = timers \ {tm}
    /\ LET after == CleanupIdleWorkers(rm, now)
       IN  /\ rm' = after.rm
           /\ stopped' = stopped \cup after.stop
           /\ hist' = [hist EXCEPT
                          !.passes = @ + 1,
                          !.sincePass = 0,
                          !.reclaimed = @ \cup after.stop,
                          !.spared = @ \cup (IF after.stop = {} THEN {}
                                             ELSE Range(BusyWorkers(rm)))]
    /\ UNCHANGED <<poolVars, levelsVars, errorVars, now>>

\* Time passes: between two tasks of the main thread's event loop, or while
\* promise jobs are waiting behind the caller's synchronous code.
Tick ==
    /\ now < MaxTicks * TickMs
    /\ now' = now + TickMs
    /\ UNCHANGED <<poolVars, levelsVars, errorVars, rm, timers, stopped, hist>>

ReclaimNext ==
    \/ \E method \in ReclaimMethods : ReadmeExecute(method)
    \/ \E tasks \in [1..2 -> ReclaimTasks] : ReadmeExecuteParallel(tasks)
    \/ ReadmePromiseJob
    \/ ReadmeInitContinue
    \/ ReadmeAfterInitContinue
    \/ ReadmeGawCreatedContinue
    \/ ReadmeRecordTask
    \/ \E w \in WorkerIds : \E t \in TaskIds :
          \E type \in {"progress", "result", "error"} : ReadmeOnMessage(w, t, type)
    \/ \E t \in TaskIds : ReadmeCancelTask(t)
    \/ ReadmeTerminateAll
    \/ ReadmeInit
    \/ ReadmeCallCreateWorker
    \/ ReadmeCallGetAvailableWorker
    \/ CallScheduleCleanup
    \/ CallCleanupIdleWorkers
    \/ CallTerminateIdleWorkers
    \/ BroadcastVisibility
    \/ \E used \in HeapSamples : CheckMemoryPressure(used)
    \/ CleanupTimerFires
    \/ Tick

ReclaimSpec == ReclaimInit /\ [][ReclaimNext]_vars

\* -------------------------------------- generateAdaptiveLevels: its steps

\* The pool before any call, for the specifications that are not about it.
PoolAtRest ==
    /\ pool = Constructor(1)
    /\ taskCount = <<>>
    /\ calls = <<>>
    /\ microtasks = <<>>
    /\ promise = [t \in TaskIds |-> "none"]
    /\ worker = <<>>
    /\ job = [t \in TaskIds |->
                [worker |-> NoWorker, state |-> "none", method |-> "none"]]
    /\ posted = [t \in TaskIds |-> <<>>]
    /\ handled = [t \in TaskIds |-> <<>>]
    /\ signals = [t \in TaskIds |-> {}]
    /\ ops = 0

\* generateAdaptiveLevels(solution, width, height, interval, min, max,
\* gradMag, detailLevel) has been called; it reads only interval, min and max.
LevelsInit ==
    /\ PoolAtRest
    /\ ReclaimAtRest
    /\ ErrorsAtRest
    /\ \E mm \in MinMaxSamples, interval \in IntervalSamples :
          gal = [LevelsIdle EXCEPT !.min = mm[1], !.max = mm[2],
                                   !.interval = interval, !.pc = "called"]

\* Lines 938-947: the two early returns, and the loop's initialisation.
\* `targetLevels` (line 945) is computed and never read.
LevelsEnter ==
    /\ gal.pc = "called"
    /\ gal' =
          IF gal.min = Infinity \/ gal.max = NegInfinity
          THEN [gal EXCEPT !.pc = "returned"]
          ELSE IF gal.max - gal.min < Tolerance
          THEN [gal EXCEPT !.pc = "returned",
                           !.levels = <<gal.min + (gal.max - gal.min) \div 2>>]
          ELSE [gal EXCEPT !.pc = "loop", !.l = gal.min + gal.interval]
    /\ UNCHANGED <<poolVars, reclaimVars, errorVars>>

\* Lines 947-949, one iteration: levels.push(l); l += interval.
LevelsPush ==
    /\ gal.pc = "loop"
    /\ gal.l < gal.max
    /\ gal' =
          IF Len(gal.levels) = MaxLevels
          THEN [gal EXCEPT !.pc = "outOfMemory"]
          ELSE [gal EXCEPT !.levels = Append(@, gal.l),
                           !.l = @ + gal.interval]
    /\ UNCHANGED <<poolVars, reclaimVars, errorVars>>

\* Lines 947 and 951: the loop's test fails and the array is returned.
LevelsReturn ==
    /\ gal.pc = "loop"
    /\ ~(gal.l < gal.max)
    /\ gal' = [gal EXCEPT !.pc = "returned"]
    /\ UNCHANGED <<poolVars, reclaimVars, errorVars>>

LevelsNext ==
    \/ LevelsEnter
    \/ LevelsPush
    \/ LevelsReturn

LevelsSpec == LevelsInit /\ [][LevelsNext]_vars

\* ------------------------------------------------ the pool's worker.onerror

\* The host fires at most MaxErrorEvents error events in all.
MaxErrorEvents == 2

\* The host fires an error event on a Worker object when its thread raises
\* an error that nothing in the worker caught, or when its script cannot be
\* loaded or evaluated; the event is a task of the main thread's event loop.
\* The handler logs, and calls the reject of the promise createWorker made,
\* which resolve(worker) has settled already (line 85), so reject does
\* nothing, at the first error event of a worker and at every later one.
WorkerOnError(w) ==
    /\ w \in DOMAIN worker
    /\ ~worker[w].terminated
    /\ microtasks = <<>>
    /\ Len(errors) < MaxErrorEvents
    /\ errors' = Append(errors, w)
    /\ UNCHANGED <<poolVars, reclaimVars, levelsVars>>

ErrorNext ==
    \/ Next
    \/ \E w \in WorkerIds : WorkerOnError(w)

ErrorSpec == Init /\ [][ErrorNext]_vars

\* ------------------------------------------------------------------ claims

\* C1: the pool never holds more workers than its cap maxWorkers (for a cap
\* of at least one worker), whatever execute calls were issued together.
\* Stated for a caller that has called nothing but execute and
\* executeParallel.
C1_WorkersWithinCap ==
    (pool.maxWorkers >= 1 /\ ops = 0)
        => Len(pool.workers) <= pool.maxWorkers

\* C2: a solveEikonalCPU task that was delivered to a worker and was never
\* cancelled or paused ends with a result event, never an error event, and
\* once the pool has received its terminal event the caller's promise is
\* resolved.
C2_SolveEndsWithResult ==
    \A t \in TaskIds :
        (/\ job[t].state # "none"
         /\ job[t].method = "solveEikonalCPU"
         /\ signals[t] \cap {"cancel", "pause"} = {})
        => /\ \A i \in DOMAIN posted[t] : posted[t][i] # "error"
           /\ handled[t] # <<>> => promise[t] = "resolved"

\* C3: for every task of a job kind that its worker has started and for
\* which the worker has nothing left to run (executeTask has returned, or
\* waits for a promise nothing will resolve), the events posted consist of
\* progress events followed by exactly one terminal event.
Terminal(type) == type \in {"result", "error"}

C3_ExactlyOneTerminalEvent ==
    \A t \in TaskIds :
        (job[t].state # "none" /\ job[t].method \in KnownMethods)
        => /\ posted[t] # <<>>
           /\ Terminal(posted[t][Len(posted[t])])
           /\ \A i \in 1..(Len(posted[t]) - 1) : posted[t][i] = "progress"

\* C4, C9 and C10 speak of a task that stands at a checkpoint (checkCancelled,
\* checkPause): C4 and C10 of the task a control message is addressed to, C9
\* of another task of the same worker, which the message can reach only
\* through the worker-wide isCancelled, isPaused and pauseResolve.  No handler
\* comes as far as its first checkpoint (HandlerEntry), so no task reads these
\* flags, no reachable state carries the case and no formula is stated.

\* C5: a cancelTask(id) that finds the task active removes it from
\* activeTasks and lowers its worker's taskCount by exactly one in that very
\* step, in which no message from any worker is consumed and no worker moves.
C5_CancelFreesSlotAtOnce ==
    [][\A t \in TaskIds :
          (/\ t \in DOMAIN pool.activeTasks
           /\ "cancel" \notin signals[t]
           /\ "cancel" \in signals'[t])
          => /\ t \notin DOMAIN pool'.activeTasks
             /\ taskCount' = [taskCount EXCEPT ![pool.activeTasks[t]] = @ - 1]
             /\ handled' = handled
             /\ job' = job
             /\ posted' = posted]_vars

\* The slot of a cancelled task is free while its worker has not even begun
\* the task: the execute and the cancel message are both still in its inbox.
C5_Witness ==
    \E t \in TaskIds : \E w \in DOMAIN worker :
        /\ "cancel" \in signals[t]
        /\ job[t].state = "none"
        /\ t \notin DOMAIN pool.activeTasks
        /\ taskCount[w] = 0
        /\ Len(worker[w].inbox) = 2
        /\ worker[w].inbox[1].type = "execute" /\ worker[w].inbox[1].taskId = t
        /\ worker[w].inbox[2].type = "cancel" /\ worker[w].inbox[2].taskId = t

\* C6: once the pool has received the worker's error report for a task that
\* cancelTask cancelled, the promise execute made for the task is rejected.
C6_CancelledPromiseSettles ==
    \A t \in TaskIds :
        ("cancel" \in signals[t] /\ \E i \in DOMAIN handled[t] : handled[t][i] = "error")
        => promise[t] = "rejected"

\* C7: when execute records a task on a worker (activeTasks.set and
\* taskCount++), no worker of the pool has fewer active tasks than that
\* worker, unless a new worker was created for the task.  Stated for a pool
\* that is within its cap, so that it does not rest on what C1 is about.
C7_RecordsOnLeastLoaded ==
    [][\A c \in DOMAIN calls :
          (/\ calls[c].pc = "gawRet"
           /\ calls'[c].pc \in {"returned", "cloneFailed"}
           /\ ~calls[c].newWorker
           /\ Len(pool.workers) <= pool.maxWorkers)
          => \A i \in DOMAIN pool.workers :
                 taskCount[calls[c].worker] <= taskCount[pool.workers[i]]]_vars

\* C8: a worker starts running a newly received execute message only when
\* every task it started before has posted its terminal event.
C8_OneTaskAtATime ==
    [][\A t \in TaskIds :
          (job[t].state = "none" /\ job'[t].state # "none")
          => \A u \in TaskIds :
                 (job[u].state # "none" /\ job[u].worker = job'[t].worker)
                 => /\ job[u].state = "ended"
                    /\ posted[u] # <<>>
                    /\ Terminal(posted[u][Len(posted[u])])]_vars

\* C16: a terminateAll step, whatever the state before it, leaves every worker
\* the pool held terminated, the pool without workers and without active
\* tasks (getStats: totalWorkers = 0, activeWorkers = 0, activeTasks = 0) and
\* marked uninitialised.
C16_TerminateAllClearsPool ==
    [][TerminateAll =>
          /\ \A i \in DOMAIN pool.workers : worker'[pool.workers[i]].terminated
          /\ pool'.workers = <<>>
          /\ DOMAIN pool'.activeTasks = {}
          /\ GetStats'.totalWorkers = 0
          /\ GetStats'.activeWorkers = 0
          /\ GetStats'.activeTasks = 0
          /\ ~pool'.initialized]_vars

\* terminateAll has run on a pool that held a worker with a task recorded on
\* it: the worker is terminated with its taskCount still above zero, and the
\* pool holds nothing.
C16_Witness ==
    /\ \E w \in DOMAIN worker : worker[w].terminated /\ taskCount[w] > 0
    /\ \E t \in TaskIds : promise[t] = "pending"
    /\ pool.workers = <<>>
    /\ DOMAIN pool.activeTasks = {}
    /\ GetStats.activeWorkers = 0
    /\ ~pool.initialized

\* C17: whatever maximum the pool was configured with, no call of execute
\* fails with 'No available workers' (the effective cap being at least 1).
C17_ExecuteAlwaysAccepted ==
    \A c \in DOMAIN calls : calls[c].pc # "threw"

\* C13: a pass of cleanupIdleWorkers terminates only pooled workers that have
\* no active task and were last active more than the idle interval ago,
\* removes from the pool no worker but those, and leaves the pool with at
\* least minIdleWorkers plus the number of busy workers whenever it held that
\* many before; no worker with taskCount > 0 is terminated.
Pooled(m) == Range(m.pool.workers)
Busy(m) == {w \in Pooled(m) : m.taskCount[w] > 0}

C13_ReclaimsOnlyStaleIdle ==
    [][(CleanupTimerFires \/ CallCleanupIdleWorkers) =>
          /\ \A w \in stopped' \ stopped :
                /\ w \in Pooled(rm)
                /\ rm.taskCount[w] = 0
                /\ now - rm.lastActive[w] > IdleWorkerCleanupInterval
          /\ Pooled(rm) \ Pooled(rm') = stopped' \ stopped
          /\ Busy(rm) \subseteq Pooled(rm')
          /\ Len(rm.pool.workers) >= MinIdleWorkers + Cardinality(Busy(rm))
                => Len(rm'.pool.workers) >= MinIdleWorkers + Cardinality(Busy(rm))]_vars

\* A cleanup pass has terminated a worker while another worker of the pool
\* was busy, and that one is still pooled with its task.
C13_Witness ==
    /\ hist.reclaimed # {}
    /\ hist.forced = {}
    /\ \E w \in hist.spared : w \in Busy(rm) /\ w \notin stopped

\* C14: at most one cleanup timer is pending at any time.  While
\* scheduleCleanup has run since the last pass of the timer (at a task
\* completion, or called by the caller), the pending timer is the one armed by
\* the latest of these runs, due one idle interval after it; otherwise none is
\* pending.  Every completion arms the timer, so as long as the caller has not
\* called scheduleCleanup the timer is due one interval after the latest
\* completion.  So every pass of the timer stands for one or more completions
\* or calls, and completions less than an interval apart share one pass.
C14_OneCleanupTimer ==
    /\ Cardinality(timers) <= 1
    /\ hist.sincePass > 0 =>
          timers = {[id |-> rm.pool.cleanupTimer,
                     at |-> hist.lastArmed + IdleWorkerCleanupInterval]}
    /\ hist.sincePass = 0 => timers = {}
    /\ hist.scheduled = 0 => hist.lastArmed = hist.lastCompletion
    /\ hist.passes + hist.sincePass <= hist.completions + hist.scheduled

\* Two task completions at different moments, less than an idle interval
\* apart, were followed by a single cleanup pass.
C14_Witness ==
    /\ hist.scheduled = 0
    /\ hist.completions = 2
    /\ hist.passes = 1
    /\ hist.sincePass = 0
    /\ hist.firstCompletion < hist.lastCompletion
    /\ hist.lastCompletion - hist.firstCompletion < IdleWorkerCleanupInterval
    /\ timers = {}

\* C15: terminateIdleWorkers, run by checkMemoryPressure when it sees heap
\* usage above 80% of the limit or called by the caller, terminates at once
\* every idle worker of the pool but minIdleWorkers of them, however recently
\* they were active, and every worker with taskCount > 0 stays in the pool
\* and is not terminated.
Idle(m) == {w \in Pooled(m) : m.taskCount[w] = 0}

C15_PressureKeepsBusyWorkers ==
    [][(\/ CallTerminateIdleWorkers
        \/ \E used \in HeapSamples :
              /\ used # NoMemoryInfo
              /\ used * 100 > 80 * HeapLimit
              /\ CheckMemoryPressure(used))
          => /\ Busy(rm) \subseteq Pooled(rm') \ stopped'
             /\ stopped' \ stopped = Idle(rm) \ Pooled(rm')
             /\ Cardinality(Idle(rm) \cap Pooled(rm')) =
                    Min(Cardinality(Idle(rm)), MinIdleWorkers)
             /\ Pooled(rm') \subseteq Pooled(rm)]_vars

\* Memory pressure has terminated a worker that was active within the last
\* idle interval, while a busy worker stayed in the pool.
C15_Witness ==
    /\ \E w \in hist.forced : now - rm.lastActive[w] <= IdleWorkerCleanupInterval
    /\ hist.reclaimed = {}
    /\ \E w \in hist.spared : w \in Busy(rm) /\ w \notin stopped

\* C19: the solve of the 4x4 field that is white but for one corner cell,
\* with threshold 0.1, ends with a distance field: the worker that has run
\* the solveEikonalCPU task to its end has posted the result event that
\* carries the distances.  The handler reads no cell of the field before it
\* stops (HandlerEntry), so the field is not part of the state.
C19_SolveEndsWithDistances ==
    \A t \in TaskIds :
        (job[t].method = "solveEikonalCPU" /\ job[t].state = "ended")
        => \E i \in DOMAIN posted[t] : posted[t][i] = "result"

\* C23: generateAdaptiveLevels returns at least one level whenever the range
\* max - min is finite and at least 0.001, whatever the positive interval,
\* and returns the mid-value alone when the range is below 0.001.
C23_AtLeastOneLevel ==
    (/\ gal.pc = "returned"
     /\ gal.min # Infinity
     /\ gal.max \notin {Infinity, NegInfinity})
    => IF gal.max - gal.min < Tolerance
       THEN gal.levels = <<gal.min + (gal.max - gal.min) \div 2>>
       ELSE Len(gal.levels) >= 1

\* C24 speaks of a contour-extraction task on a field that still holds the
\* sentinel.  handleExtractContoursAdaptive stops at its entry (HandlerEntry)
\* before it reads the field or calls generateAdaptiveLevels, so no task
\* carries the case and no formula is stated.  LevelsSpec covers the function
\* called on its own, which is what C23 is about.

\* C29: an extractTSP job delivers a tour as its result (the empty tour when
\* the stipple stage produced fewer than two points): the worker that has
\* taken up an extractTSP task and has nothing left to run for it has posted
\* the result event that carries the tour.
C29_TourDelivered ==
    \A t \in TaskIds :
        (job[t].method = "extractTSP" /\ job[t].state \in {"ended", "awaiting"})
        => \E i \in DOMAIN posted[t] : posted[t][i] = "result"

\* C36: every worker of the pool has a taskCount that is the number of
\* activeTasks entries assigned to it, and so never negative; a result or
\* error that arrives for a task already cancelled lowers no count.
AssignedTo(w) == {t \in DOMAIN pool.activeTasks : pool.activeTasks[t] = w}

C36_TaskCountMatchesTable ==
    \A i \in DOMAIN pool.workers :
        /\ taskCount[pool.workers[i]] = Cardinality(AssignedTo(pool.workers[i]))
        /\ taskCount[pool.workers[i]] >= 0

\* The pool has received the error event of a task it had cancelled before,
\* from a worker that is still in the pool and still holds another task.
C36_Witness ==
    \E t \in TaskIds : \E i \in DOMAIN pool.workers :
        /\ "cancel" \in signals[t]
        /\ handled[t] = <<"error">>
        /\ job[t].worker = pool.workers[i]
        /\ taskCount[pool.workers[i]] = 1
        /\ AssignedTo(pool.workers[i]) # {}

\* C37: cancelTask, pauseTask and resumeTask called with an id that is not in
\* activeTasks, and the pool's onmessage for a worker message that carries
\* such an id, leave the pool's workers, task counts, task table and promises
\* as they are and put no message into any worker's inbox.
Inboxes == [w \in DOMAIN worker |-> worker[w].inbox]

PoolFrame ==
    /\ pool' = pool
    /\ taskCount' = taskCount
    /\ promise' = promise
    /\ Inboxes' = Inboxes

C37_UnknownIdChangesNothing ==
    [][/\ \A a \in TaskIds :
             (/\ a \notin DOMAIN pool.activeTasks
              /\ CancelTask(a) \/ PauseTask(a) \/ ResumeTask(a))
             => PoolFrame
       /\ \A w \in DOMAIN worker :
             (/\ OnMessage(w)
              /\ Head(worker[w].outbox).taskId \notin DOMAIN pool.activeTasks)
             => PoolFrame]_vars

\* The pool has consumed the error event of a task that was cancelled before
\* the event arrived; the task's promise is as cancelTask left it, and one
\* more call of init, cancelTask, pauseTask or resumeTask was made.
C37_Witness ==
    \E t \in TaskIds :
        /\ signals[t] = {"cancel"}
        /\ handled[t] = <<"error">>
        /\ promise[t] = "pending"
        /\ t \notin DOMAIN pool.activeTasks
        /\ ops >= 2
        /\ pool.workers # <<>>

\* C38: a cancel or pause message that a worker processed while it had no
\* task in progress does not affect the next task started on it: the step
\* that starts a task leaves isCancelled and isPaused false and pauseResolve
\* empty, and no event it posts reports a cancellation.
Starts(w) ==
    /\ worker[w].inbox # <<>>
    /\ Head(worker[w].inbox).type = "execute"
    /\ WorkerOnMessage(w)

C38_NewTaskStartsWithClearFlags ==
    [][\A w \in DOMAIN worker :
          Starts(w)
          => /\ ~worker'[w].isCancelled
             /\ ~worker'[w].isPaused
             /\ worker'[w].pauseResolve = NoTask
             /\ \A i \in DOMAIN worker'[w].outbox :
                   worker'[w].outbox[i].message # "Cancelled by user"]_vars

\* A worker processed the cancel message of a task that had already ended on
\* it, and then started another task; its flags are clear and the new task
\* has posted its own events.
C38_Witness ==
    \E a \in TaskIds : \E t \in TaskIds \ {a} : \E w \in DOMAIN worker :
        /\ "cancel" \in signals[a]
        /\ job[a].worker = w
        /\ job[a].state = "ended"
        /\ job[t].worker = w
        /\ job[t].state = "ended"
        /\ t > a
        /\ worker[w].inbox = <<>>
        /\ ~worker[w].isCancelled
        /\ posted[t] = <<"error">>

\* C32: when worker.onerror fires for a worker that owns active tasks, those
\* tasks are failed: their promises are rejected, their activeTasks entries
\* are removed and the worker's taskCount is lowered by their number.
C32_WorkerErrorFailsItsTasks ==
    [][\A w \in WorkerIds :
          WorkerOnError(w)
          => /\ \A t \in AssignedTo(w) :
                   /\ promise'[t] = "rejected"
                   /\ t \notin DOMAIN pool'.activeTasks
             /\ taskCount'[w] = taskCount[w] - Cardinality(AssignedTo(w))]_vars

====
